---- MODULE Spec2Model ----
(***************************************************************************)
(* A model of the sprite batching Renderer of src/src/index.js (the first  *)
(* Renderer class of the file, lines 161-493): the stream buffer, the      *)
(* texture-unit cache, drawImage, flush, reset and setProjection, together *)
(* with the part of the WebGL context those methods drive (active texture  *)
(* unit, texture bindings, the projection uniform) and the list of WebGL   *)
(* calls each public operation issues.                                     *)
(*                                                                         *)
(* Numbers.  A JavaScript number v is modelled by the integer v * One      *)
(* (fixed point, One = 256, so that the visibility threshold 1/256 is the  *)
(* integer 1); the three non-finite values are the sentinels NaN, PosInf   *)
(* and NegInf.  Every input of the model is chosen so that each quotient   *)
(* and product the code forms is exact in this representation and exactly  *)
(* representable as a 32-bit float, so storing it into the Float32Array    *)
(* does not round it.                                                      *)
(*                                                                         *)
(* Scale.  MAX_LENGTH (16000 in the source) and the initial stream         *)
(* capacity (256 in the source) are scaled down; the model keeps the       *)
(* source's shape: the capacity starts below MAX_LENGTH and doubles.       *)
(*                                                                         *)
(* Left out.  this.vectors and this.matrix are scratch storage that        *)
(* drawImage overwrites before it reads it; setClearColor only forwards to *)
(* gl.clearColor; the contents of the GPU buffers are represented by the   *)
(* recorded bufferSubData and drawElements calls.  The number of texture   *)
(* units of the context (MAX_COMBINED_TEXTURE_IMAGE_UNITS) depends on the  *)
(* device: the initial states cover a context with exactly maxTextures     *)
(* units and one with a unit more.                                         *)
(***************************************************************************)
EXTENDS Integers, Sequences, FiniteSets, TLC

VARIABLES
    renderer,    \* the fields of the Renderer object (this.*)
    gl,          \* the WebGL context: texture units, uniform, calls of the last operation
    last,        \* history: the last public operation, its arguments, what it threw,
                 \*          and the pending length it started with
    pending,     \* history: arguments of the visible drawImage calls that returned, since
                 \*          the batch was last emptied
    firstSeen,   \* history: the images drawn with a visible colour, in first-drawn order
    texUploads,  \* history: number of texImage2D calls issued since construction
    counted,     \* history, kept by an application that counts: the visible drawImage
                 \*          calls made and the quads drawn since construction or the last reset
    app,         \* the application driving the renderer: the inputs it uses
    ib           \* the loop of createIB that builds the index table

vars == <<renderer, gl, last, pending, firstSeen, texUploads, counted, app, ib>>

(***************************************************************************)
(* Constants of the source (lines 7-28).                                   *)
(***************************************************************************)
VERTEX_SIZE == 2
COLOR_SIZE == 4
REGION_SIZE == 2
TEXTURE_SIZE == 1

ELEMENT_SIZE == VERTEX_SIZE + COLOR_SIZE + REGION_SIZE + TEXTURE_SIZE

VERTEX_ELEMENT == 0
COLOR_ELEMENT == VERTEX_ELEMENT + VERTEX_SIZE
REGION_ELEMENT == COLOR_ELEMENT + COLOR_SIZE
TEXTURE_ELEMENT == REGION_ELEMENT + REGION_SIZE

ELEMENTS_PER_QUAD == 4
INDICES_PER_QUAD == 6

\* 16000 in the source; scaled down.
MAX_LENGTH == 3

\* this.sbSize = 256 in the source; scaled down.
INITIAL_SB_SIZE == 1

\* Math.min(24, gl.getParameter(gl.MAX_TEXTURE_IMAGE_UNITS)); scaled down.
maxTextures == 2

\* The drawImage calls an application that counts them makes between two
\* resets.
MaxDraws == 7

\* Floats of one quad in the stream.
QUAD_SIZE == ELEMENT_SIZE * ELEMENTS_PER_QUAD

(***************************************************************************)
(* Numbers.                                                                *)
(***************************************************************************)
\* The fixed-point unit: 1 / One is the threshold of line 383.
One == 256

PosInf == 1073741824
NegInf == -1073741824
NaN == 1073741825

NonFinite == {PosInf, NegInf, NaN}

IsFinite(v) == v \notin NonFinite

\* An integer literal or integer argument as a number.
Num(n) == n * One

\* a + b, a * b and a / b of JavaScript on the modelled numbers.
FAdd(a, b) ==
    IF a = NaN \/ b = NaN THEN NaN
    ELSE IF a \in NonFinite /\ b \in NonFinite THEN (IF a = b THEN a ELSE NaN)
    ELSE IF a \in NonFinite THEN a
    ELSE IF b \in NonFinite THEN b
    ELSE a + b

FMul(a, b) ==
    IF a = NaN \/ b = NaN THEN NaN
    ELSE IF a \in NonFinite \/ b \in NonFinite
         THEN (IF a = 0 \/ b = 0 THEN NaN
               ELSE IF (a > 0) = (b > 0) THEN PosInf ELSE NegInf)
    ELSE (a * b) \div One

FDiv(a, b) ==
    IF a = NaN \/ b = NaN THEN NaN
    ELSE IF a \in NonFinite THEN (IF b \in NonFinite THEN NaN
                                  ELSE IF (a > 0) = (b >= 0) THEN PosInf ELSE NegInf)
    ELSE IF b \in NonFinite THEN 0
    ELSE IF b = 0 THEN (IF a = 0 THEN NaN ELSE IF a > 0 THEN PosInf ELSE NegInf)
    ELSE (a * One) \div b

FNeg(a) == IF a = NaN THEN NaN ELSE IF a = PosInf THEN NegInf ELSE IF a = NegInf THEN PosInf ELSE 0 - a

(***************************************************************************)
(* Inputs.                                                                 *)
(***************************************************************************)
\* Image handles, and the pixel dimensions each reports: an image element
\* that has not loaded ("broken") reports 0 by 0.  "tainted" is an image of
\* another origin loaded without CORS approval.
Images == {"bg", "image", "move", "broken", "tainted"}

naturalWidth(image) ==
    CASE image = "bg" -> Num(4) [] image = "image" -> Num(2) [] image = "move" -> Num(2)
      [] image = "tainted" -> Num(2)
      [] OTHER -> 0
naturalHeight(image) ==
    CASE image = "bg" -> Num(2) [] image = "image" -> Num(2) [] image = "move" -> Num(4)
      [] image = "tainted" -> Num(2)
      [] OTHER -> 0

\* gl.texImage2D throws a SecurityError for an image that is not origin-clean.
Tainted(image) == image = "tainted"

\* Angles are given in quarter turns; the exact sine and cosine of them
\* (Math.sin and Math.cos return these up to rounding).
Sin(q) == CASE q % 4 = 0 -> 0 [] q % 4 = 1 -> One [] q % 4 = 2 -> 0 [] OTHER -> 0 - One
Cos(q) == CASE q % 4 = 0 -> One [] q % 4 = 1 -> 0 [] q % 4 = 2 -> 0 - One [] OTHER -> 0

Args(image, x, y, w, h, rx, ry, rw, rh, angle, ox, oy) ==
    [image |-> image, x |-> Num(x), y |-> Num(y), width |-> Num(w), height |-> Num(h),
     regionX |-> Num(rx), regionY |-> Num(ry), regionWidth |-> Num(rw), regionHeight |-> Num(rh),
     rotateAngle |-> angle, rotateOriginX |-> Num(ox), rotateOriginY |-> Num(oy)]

\* The drawImage calls of the model: two unrotated sprites, one rotated by
\* a quarter turn about its centre, one rotated by a quarter turn the other
\* way about its top-left corner, and one of the image that has not loaded.
DrawBg == Args("bg", 0, 0, 4, 2, 0, 0, 4, 2, 0, 0, 0)
DrawImg == Args("image", 1, 2, 2, 1, 1, 0, 1, 2, 0, 0, 0)
DrawMove == Args("move", 0, 0, 2, 2, 0, 1, 2, 2, 1, 1, 1)
DrawSpin == Args("move", 1, 1, 2, 2, 0, 0, 2, 2, -1, 0, 0)
DrawBroken == Args("broken", 0, 0, 2, 2, 0, 0, 2, 2, 0, 0, 0)
DrawTainted == Args("tainted", 1, 0, 2, 2, 0, 0, 2, 2, 0, 0, 0)

\* The draw colours: opaque white (the constructor's), half-transparent red,
\* and a fully transparent colour.
White == << Num(1), Num(1), Num(1), Num(1) >>
HalfRed == << Num(1), 0, 0, FDiv(Num(1), Num(2)) >>
Invisible == << Num(1), Num(1), Num(1), 0 >>

\* canvas.width and canvas.height at construction (400 x 300 in the source;
\* scaled down), and the size a later setProjection is called with.
CanvasSize == << 4, 2 >>
Resized == << 2, 4 >>

\* The applications the model runs: each is the set of drawImage calls it
\* makes, the colours it sets and the sizes it calls setProjection with, in
\* any order and any number of times.  The last one keeps count of its
\* drawImage calls and of the quads drawn, and makes at most MaxDraws calls
\* between two resets.
Applications ==
    { [draws |-> {DrawBg, DrawImg}, colors |-> {White, Invisible}, sizes |-> {Resized},
       counts |-> FALSE],
      [draws |-> {DrawBg, DrawImg, DrawMove}, colors |-> {}, sizes |-> {}, counts |-> FALSE],
      [draws |-> {DrawBg}, colors |-> {HalfRed, Invisible}, sizes |-> {}, counts |-> FALSE],
      [draws |-> {DrawBroken}, colors |-> {}, sizes |-> {}, counts |-> FALSE],
      [draws |-> {DrawMove, DrawSpin}, colors |-> {}, sizes |-> {}, counts |-> FALSE],
      [draws |-> {DrawBg}, colors |-> {White, Invisible}, sizes |-> {Resized},
       counts |-> TRUE] }

\* An application that also draws an image the context refuses to upload.
UploadFailsApplications ==
    { [draws |-> {DrawBg, DrawImg, DrawTainted}, colors |-> {Invisible, White},
       sizes |-> {Resized}, counts |-> FALSE] }

(***************************************************************************)
(* The WebGL context.  A state st of the program is the pair of the        *)
(* Renderer object st.r and the context st.gl; each method below maps the  *)
(* state before it to the state after it.  gl.calls lists the WebGL calls  *)
(* of the public operation in progress, in the order they are issued.      *)
(***************************************************************************)
glCall(st, c) == [st EXCEPT !.gl.calls = Append(@, c)]

\* gl.activeTexture(gl.TEXTURE0 + unit): INVALID_ENUM, and no change of the
\* active unit, when the context has no such unit.
activeTexture(st, unit) ==
    LET s1 == glCall(st, [op |-> "activeTexture", unit |-> unit])
    IN IF unit < st.gl.maxCombined THEN [s1 EXCEPT !.gl.active = unit] ELSE s1

\* gl.bindTexture(gl.TEXTURE_2D, texture): binds at the active unit.
bindTexture(st, texture) ==
    LET s1 == glCall(st, [op |-> "bindTexture", texture |-> texture])
    IN [s1 EXCEPT !.gl.bound[st.gl.active] = texture]

\* gl.texImage2D(gl.TEXTURE_2D, 0, gl.RGBA, gl.RGBA, gl.UNSIGNED_BYTE, image).
texImage2D(st, image) == glCall(st, [op |-> "texImage2D", image |-> image])

texParameteri(st, pname, param) ==
    glCall(st, [op |-> "texParameteri", pname |-> pname, param |-> param])

\* gl.bufferSubData(gl.ARRAY_BUFFER, offset, data).
bufferSubData(st, offset, data) ==
    glCall(st, [op |-> "bufferSubData", offset |-> offset, data |-> data])

\* gl.drawElements(gl.TRIANGLES, count, gl.UNSIGNED_SHORT, offset).
drawElements(st, count, offset) ==
    glCall(st, [op |-> "drawElements", count |-> count, offset |-> offset])

uniformMatrix3fv(st, matrix) ==
    LET s1 == glCall(st, [op |-> "uniformMatrix3fv", matrix |-> matrix])
    IN [s1 EXCEPT !.gl.uMatrix = matrix]

uniform1iv(st, value) == glCall(st, [op |-> "uniform1iv", value |-> value])

viewport(st, width, height) ==
    glCall(st, [op |-> "viewport", width |-> width, height |-> height])

glClear(st) == glCall(st, [op |-> "clear"])

(***************************************************************************)
(* Float32Array.                                                           *)
(***************************************************************************)
\* new Float32Array(n): n zeros.
Float32Array(n) == [i \in 1..n |-> 0]

\* array[i] = v (i counted from 0): a write outside the array is ignored.
Put(array, i, v) ==
    IF i >= 0 /\ i < Len(array) THEN [array EXCEPT ![i + 1] = v] ELSE array

\* array.set(source, offset) throws a RangeError unless the source fits.
Fits(array, source, offset) == offset + Len(source) <= Len(array)

TypedSet(array, source, offset) ==
    SubSeq(array, 1, offset) \o source \o SubSeq(array, offset + Len(source) + 1, Len(array))

\* array.subarray(0, end)
Subarray(array, end) == SubSeq(array, 1, IF end < Len(array) THEN end ELSE Len(array))

(***************************************************************************)
(* Renderer methods.                                                       *)
(***************************************************************************)
\* flush passing the whole stream to bufferSubData instead of the pending prefix.
flushWholeStream(st) ==
    IF st.r.length > 0
    THEN LET s1 == bufferSubData(st, 0, st.r.stream)
             s2 == drawElements(s1, st.r.length * INDICES_PER_QUAD, 0)
         IN [s2 EXCEPT !.r.sbOffset = 0, !.r.length = 0]
    ELSE st

\* flush that forgets to rewind the write offset.
flushKeepOffset(st) ==
    IF st.r.length > 0
    THEN LET length == st.r.length * ELEMENT_SIZE * ELEMENTS_PER_QUAD
             s1 == bufferSubData(st, 0, Subarray(st.r.stream, length))
             s2 == drawElements(s1, st.r.length * INDICES_PER_QUAD, 0)
         IN [s2 EXCEPT !.r.length = 0]
    ELSE st

\* flush without the test for an empty batch.
flushAlways(st) ==
    LET length == st.r.length * ELEMENT_SIZE * ELEMENTS_PER_QUAD
        s1 == bufferSubData(st, 0, Subarray(st.r.stream, length))
        s2 == drawElements(s1, st.r.length * INDICES_PER_QUAD, 0)
    IN [s2 EXCEPT !.r.sbOffset = 0, !.r.length = 0]

\* flush counting four indices for a quad instead of six.
flushVertexCount(st) ==
    IF st.r.length > 0
    THEN LET length == st.r.length * ELEMENT_SIZE * ELEMENTS_PER_QUAD
             s1 == bufferSubData(st, 0, Subarray(st.r.stream, length))
             s2 == drawElements(s1, st.r.length * ELEMENTS_PER_QUAD, 0)
         IN [s2 EXCEPT !.r.sbOffset = 0, !.r.length = 0]
    ELSE st

\* flush that also gives the texture units back.
flushReleasesUnits(st) ==
    IF st.r.length > 0
    THEN LET length == st.r.length * ELEMENT_SIZE * ELEMENTS_PER_QUAD
             s1 == bufferSubData(st, 0, Subarray(st.r.stream, length))
             s2 == drawElements(s1, st.r.length * INDICES_PER_QUAD, 0)
         IN [s2 EXCEPT !.r.sbOffset = 0, !.r.length = 0, !.r.nextUnit = 0, !.r.cache = << >>]
    ELSE st

\* flush that forgets this.length = 0.
flushKeepLength(st) ==
    IF st.r.length > 0
    THEN LET length == st.r.length * ELEMENT_SIZE * ELEMENTS_PER_QUAD
             s1 == bufferSubData(st, 0, Subarray(st.r.stream, length))
             s2 == drawElements(s1, st.r.length * INDICES_PER_QUAD, 0)
         IN [s2 EXCEPT !.r.sbOffset = 0]
    ELSE st

\* flush drawing one quad less than are pending.
flushOffByOne(st) ==
    IF st.r.length > 0
    THEN LET length == st.r.length * ELEMENT_SIZE * ELEMENTS_PER_QUAD
             s1 == bufferSubData(st, 0, Subarray(st.r.stream, length))
             s2 == drawElements(s1, (st.r.length - 1) * INDICES_PER_QUAD, 0)
         IN [s2 EXCEPT !.r.sbOffset = 0, !.r.length = 0]
    ELSE st

flush(st) ==
    IF st.r.length > 0
    THEN LET length == st.r.length * ELEMENT_SIZE * ELEMENTS_PER_QUAD
             s1 == bufferSubData(st, 0, Subarray(st.r.stream, length))
             s2 == drawElements(s1, st.r.length * INDICES_PER_QUAD, 0)
         IN [s2 EXCEPT !.r.sbOffset = 0, !.r.length = 0]
    ELSE st

ProjectionMatrix(width, height) ==
    << FDiv(Num(2), Num(width)), 0, 0,
       0, FDiv(Num(-2), Num(height)), 0,
       Num(-1), Num(1), Num(1) >>

\* setProjection that sets the uniform before it flushes.
setProjectionUniformFirst(st, width, height) ==
    LET s1 == [st EXCEPT !.r.uMatrix = ProjectionMatrix(width, height)]
        s2 == viewport(s1, width, height)
        s3 == uniformMatrix3fv(s2, s1.r.uMatrix)
    IN flush(s3)

setProjection(st, width, height) ==
    LET s1 == flush(st)
        s2 == [s1 EXCEPT !.r.uMatrix = ProjectionMatrix(width, height)]
        s3 == viewport(s2, width, height)
    IN uniformMatrix3fv(s3, s2.r.uMatrix)

\* uploadImage that forgets this.cache.set(image, unit).
uploadImageNoStore(st, image) ==
    IF image \in DOMAIN st.r.cache
    THEN [st |-> st, unit |-> st.r.cache[image], threw |-> "none"]
    ELSE LET unit == st.r.nextUnit
             s1 == glCall(st, [op |-> "createTexture"])
             s2 == [s1 EXCEPT !.r.nextUnit = @ + 1]
             s3 == activeTexture(s2, unit)
             s4 == bindTexture(s3, image)
             s5 == texImage2D(s4, image)
             s6 == texParameteri(s5, "TEXTURE_MIN_FILTER", "LINEAR")
             s7 == texParameteri(s6, "TEXTURE_WRAP_S", "CLAMP_TO_EDGE")
             s8 == texParameteri(s7, "TEXTURE_WRAP_T", "CLAMP_TO_EDGE")
         IN IF Tainted(image)
            THEN [st |-> s5, unit |-> unit, threw |-> "SecurityError"]
            ELSE [st |-> s8, unit |-> unit, threw |-> "none"]

\* The unit uploadImage returns, the state it leaves, and the exception
\* gl.texImage2D ended it with, if any.
uploadImage(st, image) ==
    IF image \in DOMAIN st.r.cache
    THEN [st |-> st, unit |-> st.r.cache[image], threw |-> "none"]
    ELSE LET unit == st.r.nextUnit
             s1 == glCall(st, [op |-> "createTexture"])
             s2 == [s1 EXCEPT !.r.nextUnit = @ + 1]
             s3 == activeTexture(s2, unit)
             s4 == bindTexture(s3, image)
             s5 == texImage2D(s4, image)
             s6 == texParameteri(s5, "TEXTURE_MIN_FILTER", "LINEAR")
             s7 == texParameteri(s6, "TEXTURE_WRAP_S", "CLAMP_TO_EDGE")
             s8 == texParameteri(s7, "TEXTURE_WRAP_T", "CLAMP_TO_EDGE")
             s9 == [s8 EXCEPT !.r.cache = @ @@ (image :> unit)]
         IN IF Tainted(image)
            THEN [st |-> s5, unit |-> unit, threw |-> "SecurityError"]
            ELSE [st |-> s9, unit |-> unit, threw |-> "none"]

RECURSIVE BindEmpty(_, _)
\* for (let i = 0; i < this.maxTextures; i++) { activeTexture; bindTexture }
\* from index i on.
BindEmpty(st, i) ==
    IF i < maxTextures
    THEN BindEmpty(bindTexture(activeTexture(st, i), "emptyTexture"), i + 1)
    ELSE st

\* reset that also starts the unit numbering over.
resetUnits(st) ==
    LET s1 == [st EXCEPT !.r.sbOffset = 0, !.r.length = 0, !.r.nextUnit = 0]
        sampler == [i \in 1..maxTextures |-> i - 1]
        s2 == uniform1iv(s1, sampler)
    IN BindEmpty(s2, 0)

\* reset that forgets this.sbOffset = 0.
resetKeepOffset(st) ==
    LET s1 == [st EXCEPT !.r.length = 0]
        sampler == [i \in 1..maxTextures |-> i - 1]
        s2 == uniform1iv(s1, sampler)
    IN BindEmpty(s2, 0)

reset(st) ==
    LET s1 == [st EXCEPT !.r.sbOffset = 0, !.r.length = 0]
        sampler == [i \in 1..maxTextures |-> i - 1]
        s2 == uniform1iv(s1, sampler)
    IN BindEmpty(s2, 0)

clear(st) == glClear(st)

\* resizeSB that forgets to copy the old stream into the new one.
resizeSBNoCopy(st) ==
    LET sbSize == st.r.sbSize * 2
    IN [st EXCEPT !.r.sbSize = sbSize,
                  !.r.stream = Float32Array(sbSize * ELEMENT_SIZE * ELEMENTS_PER_QUAD)]

\* resizeSB growing the capacity by the initial size instead of doubling it.
resizeSBLinear(st) ==
    LET sbSize == st.r.sbSize + INITIAL_SB_SIZE
        stream == Float32Array(sbSize * ELEMENT_SIZE * ELEMENTS_PER_QUAD)
    IN [st EXCEPT !.r.sbSize = sbSize,
                  !.r.stream = TypedSet(stream, st.r.stream, 0)]

\* resizeSB copying the old stream in at the write offset.
resizeSBCopyAtOffset(st) ==
    LET sbSize == st.r.sbSize * 2
        stream == Float32Array(sbSize * ELEMENT_SIZE * ELEMENTS_PER_QUAD)
    IN [st EXCEPT !.r.sbSize = sbSize,
                  !.r.stream = TypedSet(stream, st.r.stream, st.r.sbOffset)]

resizeSB(st) ==
    LET sbSize == st.r.sbSize * 2
        stream == Float32Array(sbSize * ELEMENT_SIZE * ELEMENTS_PER_QUAD)
    IN [st EXCEPT !.r.sbSize = sbSize,
                  !.r.stream = TypedSet(stream, st.r.stream, 0)]

(***************************************************************************)
(* gl-mat3 and gl-vec2, as drawImage uses them.  A matrix is the sequence  *)
(* of its 9 entries (entry k of the library's array is m[k + 1]).          *)
(***************************************************************************)
mat3identity == << Num(1), 0, 0, 0, Num(1), 0, 0, 0, Num(1) >>

mat3translate(a, v) ==
    << a[1], a[2], a[3], a[4], a[5], a[6],
       FAdd(FAdd(FMul(v[1], a[1]), FMul(v[2], a[4])), a[7]),
       FAdd(FAdd(FMul(v[1], a[2]), FMul(v[2], a[5])), a[8]),
       FAdd(FAdd(FMul(v[1], a[3]), FMul(v[2], a[6])), a[9]) >>

\* mat3.rotate turning the other way.
mat3rotateClockwise(a, rad) ==
    LET s == Sin(rad)
        c == Cos(rad)
    IN << FAdd(FMul(c, a[1]), FNeg(FMul(s, a[4]))),
          FAdd(FMul(c, a[2]), FNeg(FMul(s, a[5]))),
          FAdd(FMul(c, a[3]), FNeg(FMul(s, a[6]))),
          FAdd(FMul(c, a[4]), FMul(s, a[1])),
          FAdd(FMul(c, a[5]), FMul(s, a[2])),
          FAdd(FMul(c, a[6]), FMul(s, a[3])),
          a[7], a[8], a[9] >>

mat3rotate(a, rad) ==
    LET s == Sin(rad)
        c == Cos(rad)
    IN << FAdd(FMul(c, a[1]), FMul(s, a[4])),
          FAdd(FMul(c, a[2]), FMul(s, a[5])),
          FAdd(FMul(c, a[3]), FMul(s, a[6])),
          FAdd(FMul(c, a[4]), FNeg(FMul(s, a[1]))),
          FAdd(FMul(c, a[5]), FNeg(FMul(s, a[2]))),
          FAdd(FMul(c, a[6]), FNeg(FMul(s, a[3]))),
          a[7], a[8], a[9] >>

vec2transformMat3(a, m) ==
    << FAdd(FAdd(FMul(m[1], a[1]), FMul(m[4], a[2])), m[7]),
       FAdd(FAdd(FMul(m[2], a[1]), FMul(m[5], a[2])), m[8]) >>

(***************************************************************************)
(* drawImage.                                                              *)
(***************************************************************************)
\* 1 / 256
Threshold == FDiv(Num(1), Num(256))

\* if (this.color[3] < 1 / 256) return;
Transparent(color) == color[4] < Threshold

\* The cap tested with > instead of >=.
FlushIfOverFull(st) == IF st.r.length > MAX_LENGTH THEN flush(st) ELSE st

\* if (this.length >= MAX_LENGTH) this.flush();
FlushIfFull(st) == IF st.r.length >= MAX_LENGTH THEN flush(st) ELSE st

\* The capacity tested with > instead of >=.
GrowIfOverFull(st) == IF st.r.length > st.r.sbSize THEN resizeSB(st) ELSE st

\* if (this.length >= this.sbSize) this.resizeSB();
GrowIfFull(st) == IF st.r.length >= st.r.sbSize THEN resizeSB(st) ELSE st

\* The matrix drawImage builds for a rotation.
RotationMatrix(a) ==
    LET translate == << FAdd(a.x, a.rotateOriginX), FAdd(a.y, a.rotateOriginY) >>
        m1 == mat3translate(mat3identity, translate)
        m2 == mat3rotate(m1, a.rotateAngle)
        back == << FMul(translate[1], Num(-1)), FMul(translate[2], Num(-1)) >>
    IN mat3translate(m2, back)

\* v0 .. v3 as drawImage writes them.
Corners(a) ==
    LET v0 == << a.x, a.y >>
        v1 == << FAdd(a.x, a.width), a.y >>
        v2 == << a.x, FAdd(a.y, a.height) >>
        v3 == << FAdd(a.x, a.width), FAdd(a.y, a.height) >>
    IN IF a.rotateAngle # 0
       THEN LET m == RotationMatrix(a)
            IN << vec2transformMat3(v0, m), vec2transformMat3(v1, m),
                  vec2transformMat3(v2, m), vec2transformMat3(v3, m) >>
       ELSE << v0, v1, v2, v3 >>

\* r0 .. r3
Regions(a) ==
    LET imageWidth == naturalWidth(a.image)
        imageHeight == naturalHeight(a.image)
    IN << FDiv(a.regionX, imageWidth),
          FDiv(a.regionY, imageHeight),
          FDiv(FAdd(a.regionX, a.regionWidth), imageWidth),
          FDiv(FAdd(a.regionY, a.regionHeight), imageHeight) >>

RECURSIVE PutAll(_, _)
\* The element writes array[i] = v of the list writes, in order.
PutAll(array, writes) ==
    IF writes = <<>> THEN array
    ELSE PutAll(Put(array, writes[1][1], writes[1][2]), Tail(writes))

RECURSIVE SetAll(_, _, _)
\* array.set(source, offset) for each offset of the list, in order, up to the
\* first that throws.
SetAll(array, source, offsets) ==
    IF offsets = <<>> THEN [array |-> array, threw |-> "none"]
    ELSE IF Fits(array, source, offsets[1])
         THEN SetAll(TypedSet(array, source, offsets[1]), source, Tail(offsets))
         ELSE [array |-> array, threw |-> "RangeError"]

\* The colour the vertex shader hands to the fragment shader:
\* vColor = vec4(aColor.rgb * aColor.a, aColor.a).
vColor(aColor) ==
    << FMul(aColor[1], aColor[4]), FMul(aColor[2], aColor[4]),
       FMul(aColor[3], aColor[4]), aColor[4] >>

\* The four colour writes, of the colour multiplied by its alpha.
WriteColorsPremultiplied(array, idx0, color) ==
    SetAll(array, vColor(color),
        << idx0 + COLOR_ELEMENT,
           idx0 + ELEMENT_SIZE + COLOR_ELEMENT,
           idx0 + 2 * ELEMENT_SIZE + COLOR_ELEMENT,
           idx0 + 3 * ELEMENT_SIZE + COLOR_ELEMENT >>)

\* this.stream.set(color, idx0 + COLOR_ELEMENT) ... (color, idx3 + COLOR_ELEMENT)
WriteColors(array, idx0, color) ==
    SetAll(array, color,
        << idx0 + COLOR_ELEMENT,
           idx0 + ELEMENT_SIZE + COLOR_ELEMENT,
           idx0 + 2 * ELEMENT_SIZE + COLOR_ELEMENT,
           idx0 + 3 * ELEMENT_SIZE + COLOR_ELEMENT >>)

\* The writes of one quad into the stream (lines 433-459): the stream they
\* leave, and the exception that ended them, if any.
WriteQuad(stream, idx0, v, color, r, unit) ==
    LET idx1 == idx0 + ELEMENT_SIZE
        idx2 == idx1 + ELEMENT_SIZE
        idx3 == idx2 + ELEMENT_SIZE
        s1 == PutAll(stream,
                << << idx0 + VERTEX_ELEMENT + 0, v[1][1] >>,
                   << idx0 + VERTEX_ELEMENT + 1, v[1][2] >>,
                   << idx1 + VERTEX_ELEMENT + 0, v[2][1] >>,
                   << idx1 + VERTEX_ELEMENT + 1, v[2][2] >>,
                   << idx2 + VERTEX_ELEMENT + 0, v[3][1] >>,
                   << idx2 + VERTEX_ELEMENT + 1, v[3][2] >>,
                   << idx3 + VERTEX_ELEMENT + 0, v[4][1] >>,
                   << idx3 + VERTEX_ELEMENT + 1, v[4][2] >> >>)
        s2 == WriteColors(s1, idx0, color)
        s3 == PutAll(s2.array,
                << << idx0 + REGION_ELEMENT + 0, r[1] >>,
                   << idx0 + REGION_ELEMENT + 1, r[2] >>,
                   << idx1 + REGION_ELEMENT + 0, r[3] >>,
                   << idx1 + REGION_ELEMENT + 1, r[2] >>,
                   << idx2 + REGION_ELEMENT + 0, r[1] >>,
                   << idx2 + REGION_ELEMENT + 1, r[4] >>,
                   << idx3 + REGION_ELEMENT + 0, r[3] >>,
                   << idx3 + REGION_ELEMENT + 1, r[4] >>,
                   << idx0 + TEXTURE_ELEMENT, unit >>,
                   << idx1 + TEXTURE_ELEMENT, unit >>,
                   << idx2 + TEXTURE_ELEMENT, unit >>,
                   << idx3 + TEXTURE_ELEMENT, unit >> >>)
    IN IF s2.threw # "none" THEN s2 ELSE [array |-> s3, threw |-> "none"]

\* drawImage resolving the image before the flush and growth tests.
drawVisibleUploadFirst(st, a) ==
    LET up == uploadImage(st, a.image)
        s1 == FlushIfFull(up.st)
        s2 == GrowIfFull(s1)
        idx0 == s2.r.sbOffset
        v == Corners(a)
        color == s2.r.color
        r == Regions(a)
        w == WriteQuad(s2.r.stream, idx0, v, color, r, up.unit)
        s3 == [s2 EXCEPT !.r.stream = w.array]
    IN IF up.threw # "none"
       THEN [st |-> up.st, threw |-> up.threw]
       ELSE IF w.threw # "none"
       THEN [st |-> s3, threw |-> w.threw]
       ELSE [st |-> [s3 EXCEPT !.r.sbOffset = @ + ELEMENT_SIZE * ELEMENTS_PER_QUAD,
                               !.r.length = @ + 1],
             threw |-> "none"]

\* drawImage from line 387 on: the state it leaves, and the exception it
\* threw, if any.
drawVisible(st, a) ==
    LET s1 == FlushIfFull(st)
        s2 == GrowIfFull(s1)
        idx0 == s2.r.sbOffset
        v == Corners(a)
        color == s2.r.color
        r == Regions(a)
        up == uploadImage(s2, a.image)
        w == WriteQuad(up.st.r.stream, idx0, v, color, r, up.unit)
        s3 == [up.st EXCEPT !.r.stream = w.array]
    IN IF up.threw # "none"
       THEN [st |-> up.st, threw |-> up.threw]
       ELSE IF w.threw # "none"
       THEN [st |-> s3, threw |-> w.threw]
       ELSE [st |-> [s3 EXCEPT !.r.sbOffset = @ + ELEMENT_SIZE * ELEMENTS_PER_QUAD,
                               !.r.length = @ + 1],
             threw |-> "none"]

\* drawImage testing the colour only after the flush at the cap.
drawImageFlushFirst(st, a) ==
    LET s1 == FlushIfFull(st)
    IN IF Transparent(s1.r.color)
       THEN [st |-> s1, threw |-> "none"]
       ELSE drawVisible(s1, a)

\* The state drawImage leaves, and the exception it threw, if any.
drawImage(st, a) ==
    IF Transparent(st.r.color)
    THEN [st |-> st, threw |-> "none"]
    ELSE drawVisible(st, a)

\* Floats the GPU vertex buffer holds: gl.bufferData(gl.ARRAY_BUFFER,
\* MAX_LENGTH * ELEMENT_OFFSET * ELEMENTS_PER_QUAD, gl.STREAM_DRAW).
VertexBufferSize == MAX_LENGTH * ELEMENT_SIZE * ELEMENTS_PER_QUAD

\* Entries of the index table: new Array(MAX_LENGTH * INDICES_PER_QUAD).
IndexTableSize == MAX_LENGTH * INDICES_PER_QUAD

\* var indices = [0, 1, 2, 2, 1, 3]
indices == << 0, 1, 2, 2, 1, 3 >>

\* The entry of createIB stepping to the next quad by the floats of a vertex
\* instead of the vertices of a quad.
IndexEntryByElementSize(i) ==
    indices[(i % INDICES_PER_QUAD) + 1] + (i \div INDICES_PER_QUAD) * ELEMENT_SIZE

\* data[i] = indices[i % INDICES_PER_QUAD] + ~~(i / INDICES_PER_QUAD) * ELEMENTS_PER_QUAD
\* (entry 0 of the source's array indices is indices[1] here).
IndexEntry(i) ==
    indices[(i % INDICES_PER_QUAD) + 1] + (i \div INDICES_PER_QUAD) * ELEMENTS_PER_QUAD

\* The value new Uint16Array(data) stores for the entry v: v modulo 2^16.
Uint16(v) == v % 65536

\* MAX_LENGTH of the source.
SourceMaxLength == 16000

\* createIB for a batch cap of maxLength quads, before the first pass of its
\* loop and after the last: the length of data, the position i of the loop,
\* and, once i > 0, the entry data[i - 1] and what the Uint16Array holds for
\* it.
createIBStarted(maxLength) ==
    [maxLength |-> maxLength, length |-> maxLength * INDICES_PER_QUAD,
     i |-> 0, entry |-> 0, stored |-> 0]

createIBDone(maxLength) ==
    LET length == maxLength * INDICES_PER_QUAD
    IN [maxLength |-> maxLength, length |-> length, i |-> length,
        entry |-> IndexEntry(length - 1), stored |-> Uint16(IndexEntry(length - 1))]

(***************************************************************************)
(* The state after construction, and the public operations.                *)
(***************************************************************************)
\* new Renderer(canvas), on a context with maxCombined texture units.  The
\* WebGL calls of the construction are not kept in gl.calls.
Constructed(maxCombined) ==
    LET s0 == [r |-> [length |-> 0,
                      sbSize |-> INITIAL_SB_SIZE,
                      sbOffset |-> 0,
                      stream |-> Float32Array(INITIAL_SB_SIZE * ELEMENT_SIZE * ELEMENTS_PER_QUAD),
                      uMatrix |-> [i \in 1..9 |-> 0],
                      nextUnit |-> 0,
                      cache |-> << >>,
                      color |-> White],
               gl |-> [maxCombined |-> maxCombined,
                       active |-> 0,
                       bound |-> [u \in 0..(maxCombined - 1) |-> "null"],
                       uMatrix |-> [i \in 1..9 |-> 0],
                       calls |-> << >>]]
        s1 == bindTexture(s0, "emptyTexture")
        s2 == reset(s1)
        s3 == setProjection(s2, CanvasSize[1], CanvasSize[2])
    IN [s3 EXCEPT !.gl.calls = << >>]

\* The state a public operation starts from: the call list is emptied.
Current == [r |-> renderer, gl |-> [gl EXCEPT !.calls = << >>]]

\* The draw colour is visible: its alpha is at least 1/256.
Visible(color) == color[4] >= Threshold

IssuedCalls(g, op) == { i \in 1..Len(g.calls) : g.calls[i].op = op }

Range(seq) == { seq[i] : i \in 1..Len(seq) }

RECURSIVE QuadsDrawn(_)
\* The quads the draw calls of a call list cover: count / INDICES_PER_QUAD
\* for each gl.drawElements.
QuadsDrawn(calls) ==
    IF calls = << >> THEN 0
    ELSE (IF calls[1].op = "drawElements" THEN calls[1].count \div INDICES_PER_QUAD ELSE 0)
            + QuadsDrawn(Tail(calls))

\* The public operation op, called with args, leaves state result and threw
\* `threw': the new values of the variables, history included.
Step(op, args, result, threw) ==
    \E res \in {result} :
        LET drew == IssuedCalls(res.gl, "drawElements") # {}
            visible == op = "drawImage" /\ Visible(renderer.color) /\ threw = "none"
            kept == IF op = "reset" \/ drew THEN << >> ELSE pending
        IN /\ renderer' = res.r
           /\ gl' = res.gl
           /\ last' = [op |-> op, args |-> args, threw |-> threw, length |-> renderer.length]
           /\ pending' = IF visible
                         THEN Append(kept, [args |-> args, color |-> renderer.color])
                         ELSE kept
           /\ firstSeen' = IF visible /\ args.image \notin Range(firstSeen)
                           THEN Append(firstSeen, args.image)
                           ELSE firstSeen
           /\ texUploads' = texUploads + Cardinality(IssuedCalls(res.gl, "texImage2D"))
           /\ counted' = IF ~app.counts THEN counted
                         ELSE IF op = "reset" THEN [visible |-> 0, drawn |-> 0]
                         ELSE [visible |-> counted.visible + (IF visible THEN 1 ELSE 0),
                               drawn |-> counted.drawn + QuadsDrawn(res.gl.calls)]
           /\ app' = app
           /\ ib' = ib

Init ==
    \E maxCombined \in {maxTextures, maxTextures + 1} :
        LET st == Constructed(maxCombined)
        IN /\ app \in Applications
           /\ renderer = st.r
           /\ gl = st.gl
           /\ last = [op |-> "new", args |-> << >>, threw |-> "none", length |-> 0]
           /\ pending = << >>
           /\ firstSeen = << >>
           /\ texUploads = 0
           /\ counted = [visible |-> 0, drawn |-> 0]
           /\ ib = createIBDone(MAX_LENGTH)

DrawImage ==
    \E a \in app.draws :
        /\ app.counts => counted.visible < MaxDraws
        /\ \E res \in {drawImage(Current, a)} :
              Step("drawImage", a, res.st, res.threw)

Flush == Step("flush", << >>, flush(Current), "none")

SetProjection ==
    \E size \in app.sizes :
        Step("setProjection", size, setProjection(Current, size[1], size[2]), "none")

Reset == Step("reset", << >>, reset(Current), "none")

Clear == Step("clear", << >>, clear(Current), "none")

\* The application sets the draw colour (the field this.color).
SetColor ==
    \E color \in app.colors :
        Step("setColor", color, [Current EXCEPT !.r.color = color], "none")

Next ==
    \/ DrawImage
    \/ Flush
    \/ SetProjection
    \/ Reset
    \/ Clear
    \/ SetColor

Spec == Init /\ [][Next]_vars

\* The renderer driven by an application that draws an image whose upload
\* throws.  main has no handler for the exception (lines 518-540): it ends
\* the application.
InitUploadFails ==
    \E maxCombined \in {maxTextures, maxTextures + 1} :
        LET st == Constructed(maxCombined)
        IN /\ app \in UploadFailsApplications
           /\ renderer = st.r
           /\ gl = st.gl
           /\ last = [op |-> "new", args |-> << >>, threw |-> "none", length |-> 0]
           /\ pending = << >>
           /\ firstSeen = << >>
           /\ texUploads = 0
           /\ counted = [visible |-> 0, drawn |-> 0]
           /\ ib = createIBDone(MAX_LENGTH)

NextUploadFails == last.threw = "none" /\ Next

SpecUploadFails == InitUploadFails /\ [][NextUploadFails]_vars

\* The constructor building the index table (line 200), for the batch cap of
\* the model and for the source's: one pass of the loop of createIB at a
\* time.  The rest of the state is the one the constructor ends with.
InitCreateIB ==
    LET st == Constructed(maxTextures)
    IN /\ \E maxLength \in {MAX_LENGTH, SourceMaxLength} : ib = createIBStarted(maxLength)
       /\ app \in UploadFailsApplications
       /\ renderer = st.r
       /\ gl = st.gl
       /\ last = [op |-> "new", args |-> << >>, threw |-> "none", length |-> 0]
       /\ pending = << >>
       /\ firstSeen = << >>
       /\ texUploads = 0
       /\ counted = [visible |-> 0, drawn |-> 0]

\* for (var i = 0; i < data.length; i++) { data[i] = ... }
CreateIBLoop ==
    /\ ib.i < ib.length
    /\ ib' = [ib EXCEPT !.i = @ + 1,
                        !.entry = IndexEntry(ib.i),
                        !.stored = Uint16(IndexEntry(ib.i))]
    /\ UNCHANGED <<renderer, gl, last, pending, firstSeen, texUploads, counted, app>>

NextCreateIB == CreateIBLoop

SpecCreateIB == InitCreateIB /\ [][NextCreateIB]_vars

(***************************************************************************)
(* What the claims speak of.                                               *)
(***************************************************************************)
\* The float of field elem + j of vertex vtx of quad k (all counted from 0)
\* in a sequence of floats laid out as the stream is.
Field(data, k, vtx, elem, j) ==
    data[k * QUAD_SIZE + vtx * ELEMENT_SIZE + elem + j + 1]

\* The four floats of the colour of vertex vtx of quad k.
ColorOf(data, k, vtx) == [j \in 1..COLOR_SIZE |-> Field(data, k, vtx, COLOR_ELEMENT, j - 1)]

\* v is the number num / den (num >= 0; a division by 0 gives NaN for 0 / 0
\* and Infinity otherwise).
IsRatio(v, num, den) ==
    IF den = 0
    THEN v = (IF num = 0 THEN NaN ELSE PosInf)
    ELSE IsFinite(v) /\ v * den = num * One

\* The calls of a given kind in the call list, in order.
CallsOf(g, op) == SelectSeq(g.calls, LAMBDA c : c.op = op)

\* Quad k of data has the corners and the UVs of the unrotated draw a, in the
\* order top-left, top-right, bottom-left, bottom-right.
ShowsUnrotated(data, k, a) ==
    LET W == naturalWidth(a.image)
        H == naturalHeight(a.image)
        xs == << a.x, a.x + a.width, a.x, a.x + a.width >>
        ys == << a.y, a.y, a.y + a.height, a.y + a.height >>
        us == << a.regionX, a.regionX + a.regionWidth, a.regionX, a.regionX + a.regionWidth >>
        vs == << a.regionY, a.regionY, a.regionY + a.regionHeight, a.regionY + a.regionHeight >>
    IN \A vtx \in 0..3 :
        /\ Field(data, k, vtx, VERTEX_ELEMENT, 0) = xs[vtx + 1]
        /\ Field(data, k, vtx, VERTEX_ELEMENT, 1) = ys[vtx + 1]
        /\ IsRatio(Field(data, k, vtx, REGION_ELEMENT, 0), us[vtx + 1], W)
        /\ IsRatio(Field(data, k, vtx, REGION_ELEMENT, 1), vs[vtx + 1], H)

Unrotated(history) == \A k \in 1..Len(history) : history[k].args.rotateAngle = 0

\* The flush submits exactly the quads of the draws of history, in order.
Submits(g, history) ==
    LET uploads == CallsOf(g, "bufferSubData")
        draws == CallsOf(g, "drawElements")
        N == Len(history)
    IN IF N = 0
       THEN uploads = << >> /\ draws = << >>
       ELSE /\ Len(uploads) = 1
            /\ Len(draws) = 1
            /\ uploads[1].offset = 0
            /\ Len(uploads[1].data) = N * QUAD_SIZE
            /\ draws[1].count = N * INDICES_PER_QUAD
            /\ draws[1].offset = 0
            /\ \A k \in 1..N : ShowsUnrotated(uploads[1].data, k - 1, history[k].args)

\* C1: after N < MAX_LENGTH unrotated drawImage calls with a visible colour,
\* made from an empty batch (N may exceed the initial capacity), a flush
\* submits exactly N quads, the k-th being the one of the k-th call, with the
\* corners (x,y), (x+w,y), (x,y+h), (x+w,y+h) and the UVs region / image size.
C1_FlushSubmitsCallsInOrder ==
    [][ (last'.op = "flush" /\ Len(pending) < MAX_LENGTH /\ Unrotated(pending))
            => Submits(gl', pending) ]_vars

\* A flush has submitted more quads than the initial capacity holds, fewer
\* than MAX_LENGTH, and the first two differ.
C1_Witness ==
    /\ last.op = "flush"
    /\ \E i \in 1..Len(gl.calls) :
          /\ gl.calls[i].op = "bufferSubData"
          /\ Len(gl.calls[i].data) > INITIAL_SB_SIZE * QUAD_SIZE
          /\ Len(gl.calls[i].data) < MAX_LENGTH * QUAD_SIZE
          /\ SubSeq(gl.calls[i].data, 1, QUAD_SIZE)
                # SubSeq(gl.calls[i].data, QUAD_SIZE + 1, 2 * QUAD_SIZE)

\* C2: a flush with L > 0 pending quads issues exactly one bufferSubData, of
\* the first L*36 floats of the stream at offset 0, then exactly one
\* drawElements of L*6 indices from index 0, and leaves the length 0.
C2_FlushUploadsPrefixThenDraws ==
    [][ (last'.op = "flush" /\ renderer.length > 0)
            => /\ gl'.calls =
                    << [op |-> "bufferSubData", offset |-> 0,
                        data |-> SubSeq(renderer.stream, 1, renderer.length * 36)],
                       [op |-> "drawElements", count |-> renderer.length * 6, offset |-> 0] >>
               /\ renderer'.length = 0 ]_vars

\* A flush has uploaded a strict prefix of the stream and drawn it.
C2_Witness ==
    /\ last.op = "flush"
    /\ Len(gl.calls) = 2
    /\ gl.calls[1].op = "bufferSubData"
    /\ Len(gl.calls[1].data) < Len(renderer.stream)
    /\ gl.calls[2].op = "drawElements"
    /\ renderer.length = 0

\* C3: the pending length never exceeds MAX_LENGTH; no draw call covers more
\* indices than the index table has, and no vertex upload exceeds the GPU
\* vertex buffer allocated at construction.
C3_LengthWithinCap ==
    /\ renderer.length <= MAX_LENGTH
    /\ \A i \in 1..Len(gl.calls) :
          /\ gl.calls[i].op = "drawElements"
                => gl.calls[i].offset + gl.calls[i].count <= IndexTableSize
          /\ gl.calls[i].op = "bufferSubData"
                => gl.calls[i].offset + Len(gl.calls[i].data) <= VertexBufferSize

\* A drawImage has brought the pending length to MAX_LENGTH.
C3_Witness == last.op = "drawImage" /\ renderer.length = MAX_LENGTH

\* C4: drawImage with a visible colour at length = MAX_LENGTH first uploads
\* and draws the MAX_LENGTH pending quads as they were before the call, then
\* writes the new quad at slot 0 and leaves the length 1.
C4_AutomaticFlushBeforeWrite ==
    [][ (last'.op = "drawImage" /\ Visible(renderer.color) /\ renderer.length = MAX_LENGTH)
            => /\ Len(gl'.calls) >= 2
               /\ gl'.calls[1] =
                    [op |-> "bufferSubData", offset |-> 0,
                     data |-> SubSeq(renderer.stream, 1, MAX_LENGTH * QUAD_SIZE)]
               /\ gl'.calls[2] =
                    [op |-> "drawElements", count |-> MAX_LENGTH * INDICES_PER_QUAD, offset |-> 0]
               /\ Len(CallsOf(gl', "drawElements")) = 1
               /\ Len(CallsOf(gl', "bufferSubData")) = 1
               /\ renderer'.length = 1
               /\ \A vtx \in 0..3 :
                     /\ ColorOf(renderer'.stream, 0, vtx) = renderer.color
                     /\ Field(renderer'.stream, 0, vtx, TEXTURE_ELEMENT, 0)
                           = renderer'.cache[last'.args.image]
               /\ last'.args.rotateAngle = 0
                     => ShowsUnrotated(renderer'.stream, 0, last'.args)
               /\ SubSeq(renderer'.stream, QUAD_SIZE + 1, Len(renderer.stream))
                     = SubSeq(renderer.stream, QUAD_SIZE + 1, Len(renderer.stream)) ]_vars

\* A drawImage has drawn MAX_LENGTH quads and then written a quad at slot 0
\* that differs from the quad the draw call found there.
C4_Witness ==
    /\ last.op = "drawImage"
    /\ renderer.length = 1
    /\ Len(gl.calls) >= 2
    /\ gl.calls[1].op = "bufferSubData"
    /\ Len(gl.calls[1].data) = MAX_LENGTH * QUAD_SIZE
    /\ gl.calls[2].op = "drawElements"
    /\ SubSeq(gl.calls[1].data, 1, QUAD_SIZE) # SubSeq(renderer.stream, 1, QUAD_SIZE)

\* The state of the context apart from the call list.
Context(g) == [g EXCEPT !.calls = << >>]

\* C5: a flush at length 0 issues no upload and no draw call and leaves the
\* renderer unchanged; of two consecutive flushes the second issues no draw.
C5_EmptyFlushIsNoOp ==
    [][ /\ (last'.op = "flush" /\ renderer.length = 0)
            => /\ gl'.calls = << >>
               /\ renderer' = renderer
               /\ Context(gl') = Context(gl)
        /\ (last.op = "flush" /\ last'.op = "flush")
            => CallsOf(gl', "drawElements") = << >> ]_vars

\* A flush has found the batch empty, on a renderer that has drawn images
\* before.
C5_Witness ==
    /\ last.op = "flush"
    /\ gl.calls = << >>
    /\ renderer.length = 0
    /\ renderer.nextUnit > 0
    /\ DOMAIN renderer.cache # {}

\* The texture unit in vertex vtx of quad k.
UnitOf(data, k, vtx) == Field(data, k, vtx, TEXTURE_ELEMENT, 0)

\* Every image drawn has the unit of its rank among the images first drawn,
\* no two share a unit, and each pending quad carries its image's unit in all
\* four vertices.
UnitsInFirstSeenOrder ==
    /\ DOMAIN renderer.cache = Range(firstSeen)
    /\ \A i \in 1..Len(firstSeen) : renderer.cache[firstSeen[i]] = i - 1
    /\ \A i, j \in DOMAIN renderer.cache :
          i # j => renderer.cache[i] # renderer.cache[j]
    /\ Len(pending) = renderer.length
    /\ \A k \in 1..Len(pending) : \A vtx \in 0..3 :
          UnitOf(renderer.stream, k - 1, vtx) = renderer.cache[pending[k].args.image]

\* C6: across drawImage, flush, setProjection and reset, an image resolved
\* once keeps its unit, distinct images have distinct units, the i-th distinct
\* image drawn (from 0) has unit i, and a quad's four vertices carry the unit
\* of its image.
C6_UnitsStableAndInOrder ==
    [][ /\ UnitsInFirstSeenOrder'
        /\ \A image \in DOMAIN renderer.cache :
              /\ image \in DOMAIN renderer'.cache
              /\ renderer'.cache[image] = renderer.cache[image] ]_vars

\* Two images were drawn and a reset followed (unit 0 holds the placeholder
\* again); then the second image was drawn, and the first after it.
C6_Witness ==
    /\ last.op = "drawImage"
    /\ Len(firstSeen) >= 2
    /\ last.args.image = firstSeen[1]
    /\ renderer.length >= 2
    /\ gl.bound[0] = "emptyTexture"
    /\ UnitOf(renderer.stream, renderer.length - 1, 3) = 0
    /\ UnitOf(renderer.stream, renderer.length - 2, 3) = 1

\* C7: every unit in the cache, and every unit written into the stream, lies
\* in [0, maxTextures).
C7_UnitsBelowMaxTextures ==
    /\ \A image \in DOMAIN renderer.cache :
          renderer.cache[image] \in 0..(maxTextures - 1)
    /\ \A k \in 1..renderer.length : \A vtx \in 0..3 :
          UnitOf(renderer.stream, k - 1, vtx) \in 0..(maxTextures - 1)

TextureOps == {"createTexture", "activeTexture", "bindTexture", "texImage2D", "texParameteri"}

TextureCalls(g) == SelectSeq(g.calls, LAMBDA c : c.op \in TextureOps)

\* C8: a drawImage with a visible colour uploads the image's texture exactly
\* once if the image was never drawn before, and issues no texture call at
\* all otherwise; the uploads so far number the distinct images drawn.
C8_OneUploadPerImage ==
    [][ /\ (last'.op = "drawImage" /\ Visible(renderer.color))
            => IF last'.args.image \in Range(firstSeen)
               THEN TextureCalls(gl') = << >>
               ELSE CallsOf(gl', "texImage2D")
                       = << [op |-> "texImage2D", image |-> last'.args.image] >>
        /\ texUploads' = Len(firstSeen') ]_vars

\* A drawImage has drawn an image again, after two uploads, with no texture
\* call.
C8_Witness ==
    /\ last.op = "drawImage"
    /\ Visible(renderer.color)
    /\ texUploads >= 2
    /\ TextureCalls(gl) = << >>
    /\ renderer.length >= 1

\* C9: a drawImage made while the colour's alpha is below 1/256 changes
\* nothing and issues no WebGL call, whatever the pending length.
C9_TransparentDrawIsNoOp ==
    [][ (last'.op = "drawImage" /\ ~Visible(renderer.color))
            => /\ renderer' = renderer
               /\ gl'.calls = << >>
               /\ Context(gl') = Context(gl)
               /\ last'.threw = "none" ]_vars

\* A transparent drawImage has been made at length = MAX_LENGTH.
C9_Witness ==
    /\ last.op = "drawImage"
    /\ ~Visible(renderer.color)
    /\ renderer.length = MAX_LENGTH

\* c is the colour col with its RGB multiplied by its alpha.
IsPremultiplied(c, col) ==
    /\ \A i \in 1..3 : c[i] * One = col[i] * col[4]
    /\ c[4] = col[4]

\* C10, as claimed: each vertex of a pending quad holds (r*a, g*a, b*a, a)
\* for the draw colour (r, g, b, a) of its drawImage call.
C10_StoredPremultiplied ==
    /\ Len(pending) = renderer.length
    /\ \A k \in 1..Len(pending) : \A vtx \in 0..3 :
          IsPremultiplied(ColorOf(renderer.stream, k - 1, vtx), pending[k].color)

\* C10, amended: each vertex of a pending quad holds the draw colour
\* (r, g, b, a) of its drawImage call unchanged; the vertex shader turns it
\* into (r*a, g*a, b*a, a).
C10_StoredAsSetShaderPremultiplies ==
    /\ Len(pending) = renderer.length
    /\ \A k \in 1..Len(pending) : \A vtx \in 0..3 :
          /\ ColorOf(renderer.stream, k - 1, vtx) = pending[k].color
          /\ IsPremultiplied(vColor(ColorOf(renderer.stream, k - 1, vtx)), pending[k].color)

\* A quad drawn in half-transparent red is pending.
C10_Witness ==
    /\ last.op = "drawImage"
    /\ renderer.color = HalfRed
    /\ renderer.length >= 1
    /\ \A vtx \in 0..3 : ColorOf(renderer.stream, renderer.length - 1, vtx) = HalfRed

\* The position of the first call of kind op in the call list, 0 if none.
FirstCall(g, op) ==
    IF IssuedCalls(g, op) = {} THEN 0
    ELSE CHOOSE i \in IssuedCalls(g, op) : \A j \in IssuedCalls(g, op) : i <= j

\* C11: setProjection with L > 0 pending quads uploads and draws those L
\* quads before it changes the projection uniform, and leaves the length 0;
\* the uniform never changes while quads are pending except after their draw
\* call, so each quad is drawn with the projection it was encoded under.
C11_SetProjectionDrawsBeforeUniform ==
    [][ /\ (last'.op = "setProjection" /\ renderer.length > 0)
            => /\ gl'.calls =
                    << [op |-> "bufferSubData", offset |-> 0,
                        data |-> SubSeq(renderer.stream, 1, renderer.length * QUAD_SIZE)],
                       [op |-> "drawElements",
                        count |-> renderer.length * INDICES_PER_QUAD, offset |-> 0],
                       [op |-> "viewport", width |-> last'.args[1], height |-> last'.args[2]],
                       [op |-> "uniformMatrix3fv",
                        matrix |-> ProjectionMatrix(last'.args[1], last'.args[2])] >>
               /\ gl'.uMatrix = ProjectionMatrix(last'.args[1], last'.args[2])
               /\ renderer'.length = 0
        /\ (renderer.length > 0 /\ gl'.uMatrix # gl.uMatrix)
            => /\ FirstCall(gl', "drawElements") > 0
               /\ FirstCall(gl', "drawElements") < FirstCall(gl', "uniformMatrix3fv")
               /\ gl'.calls[FirstCall(gl', "drawElements")].count
                     = renderer.length * INDICES_PER_QUAD ]_vars

\* A setProjection has drawn two pending quads and then set a projection
\* that differs from the one of the construction.
C11_Witness ==
    /\ last.op = "setProjection"
    /\ Len(gl.calls) = 4
    /\ gl.calls[2] = [op |-> "drawElements", count |-> 2 * INDICES_PER_QUAD, offset |-> 0]
    /\ gl.calls[4].op = "uniformMatrix3fv"
    /\ gl.uMatrix # ProjectionMatrix(CanvasSize[1], CanvasSize[2])
    /\ renderer.length = 0

\* The step uploads the L pending quads and issues a draw call covering all
\* of them.
DrawsAllPending ==
    \E i \in 1..Len(gl'.calls) : \E j \in (i + 1)..Len(gl'.calls) :
        /\ gl'.calls[i] = [op |-> "bufferSubData", offset |-> 0,
                           data |-> SubSeq(renderer.stream, 1, renderer.length * QUAD_SIZE)]
        /\ gl'.calls[j] = [op |-> "drawElements",
                           count |-> renderer.length * INDICES_PER_QUAD, offset |-> 0]

\* C12, as claimed: over drawImage, flush, setProjection, reset and clear,
\* the pending length goes from a positive value to 0 only in a step that
\* issues a draw call covering all the pending quads.
C12_LengthZeroOnlyByDraw ==
    [][ (renderer.length > 0 /\ renderer'.length = 0) => DrawsAllPending ]_vars

\* C12, amended: the pending length goes from a positive value to 0 only in
\* a step that issues a draw call covering all the pending quads, or in a
\* reset, which discards the pending quads and issues no draw call.
C12_LengthZeroOnlyByDrawOrReset ==
    [][ /\ (renderer.length > 0 /\ renderer'.length = 0)
            => \/ DrawsAllPending
               \/ last'.op = "reset"
        /\ last'.op = "reset"
            => /\ renderer'.length = 0
               /\ IssuedCalls(gl', "drawElements") = {}
               /\ IssuedCalls(gl', "bufferSubData") = {} ]_vars

\* A reset has discarded two pending quads without a draw call.
C12_Witness ==
    /\ last.op = "reset"
    /\ last.length = 2
    /\ renderer.length = 0
    /\ IssuedCalls(gl, "drawElements") = {}

\* The image reports a pixel width or height of 0.
ZeroDimension(image) == naturalWidth(image) = 0 \/ naturalHeight(image) = 0

\* The UV floats of the first n quads of the stream.
StoredUVs(r, n) ==
    { Field(r.stream, k, vtx, REGION_ELEMENT, j) : k \in 0..(n - 1), vtx \in 0..3, j \in 0..1 }

\* C13: drawImage of an image whose reported width or height is 0 raises an
\* error and writes no quad; no non-finite UV is ever stored in the stream.
C13_ZeroDimensionRaises ==
    [][ /\ (last'.op = "drawImage" /\ Visible(renderer.color)
                /\ ZeroDimension(last'.args.image))
            => /\ last'.threw # "none"
               /\ renderer'.stream = renderer.stream
               /\ renderer'.length = renderer.length
        /\ \A uv \in StoredUVs(renderer', renderer'.sbSize) : IsFinite(uv) ]_vars

\* The position stored in vertex vtx of quad k.
PositionOf(data, k, vtx) ==
    << Field(data, k, vtx, VERTEX_ELEMENT, 0), Field(data, k, vtx, VERTEX_ELEMENT, 1) >>

\* pivot + R(angle) * (corner - pivot), R the standard rotation matrix
\* ((cos, -sin), (sin, cos)), on finite numbers.
RotatedAbout(pivot, corner, angle) ==
    LET dx == corner[1] - pivot[1]
        dy == corner[2] - pivot[2]
    IN << pivot[1] + (Cos(angle) * dx - Sin(angle) * dy) \div One,
          pivot[2] + (Sin(angle) * dx + Cos(angle) * dy) \div One >>

\* The unrotated corners of the draw a: top-left, top-right, bottom-left,
\* bottom-right.
UnrotatedCorners(a) ==
    << << a.x, a.y >>, << a.x + a.width, a.y >>,
       << a.x, a.y + a.height >>, << a.x + a.width, a.y + a.height >> >>

PivotOf(a) == << a.x + a.rotateOriginX, a.y + a.rotateOriginY >>

\* C14: a visible drawImage with rotateAngle # 0 writes, as the position of
\* vertex i of the new quad, pivot + R(rotateAngle) * (corner i - pivot) with
\* pivot = (x + rotateOriginX, y + rotateOriginY); the corners keep the order
\* top-left, top-right, bottom-left, bottom-right, and a corner equal to the
\* pivot is written unchanged.
C14_RotatesAboutPivot ==
    [][ (last'.op = "drawImage" /\ Visible(renderer.color) /\ last'.args.rotateAngle # 0)
            => /\ renderer'.length >= 1
               /\ \A i \in 1..4 :
                     LET written == PositionOf(renderer'.stream, renderer'.length - 1, i - 1)
                         corner == UnrotatedCorners(last'.args)[i]
                     IN /\ written = RotatedAbout(PivotOf(last'.args), corner,
                                                  last'.args.rotateAngle)
                        /\ corner = PivotOf(last'.args) => written = corner ]_vars

\* A rotated drawImage has written a quad whose first corner is the pivot,
\* unchanged, and whose other corners have all moved.
C14_Witness ==
    /\ last.op = "drawImage"
    /\ last.args.rotateAngle # 0
    /\ renderer.length >= 1
    /\ UnrotatedCorners(last.args)[1] = PivotOf(last.args)
    /\ PositionOf(renderer.stream, renderer.length - 1, 0) = PivotOf(last.args)
    /\ \A i \in 2..4 :
          PositionOf(renderer.stream, renderer.length - 1, i - 1) # UnrotatedCorners(last.args)[i]

\* C15: the pending length never exceeds the capacity sbSize; a visible
\* drawImage grows the stream by at most one doubling and then writes its
\* whole quad at float positions below sbSize * 36: no write falls outside
\* the array (none is dropped, none throws).
C15_WritesWithinCapacity ==
    [][ /\ renderer'.length <= renderer'.sbSize
        /\ (last'.op = "drawImage" /\ Visible(renderer.color))
            => LET idx0 == renderer'.sbOffset - QUAD_SIZE
               IN /\ last'.threw = "none"
                  /\ renderer'.sbSize \in {renderer.sbSize, 2 * renderer.sbSize}
                  /\ idx0 >= 0
                  /\ idx0 + QUAD_SIZE <= renderer'.sbSize * 36
                  /\ idx0 + QUAD_SIZE <= Len(renderer'.stream)
                  /\ idx0 = (renderer'.length - 1) * QUAD_SIZE
                  /\ \A vtx \in 0..3 :
                        /\ PositionOf(renderer'.stream, renderer'.length - 1, vtx)
                              = Corners(last'.args)[vtx + 1]
                        /\ ColorOf(renderer'.stream, renderer'.length - 1, vtx) = renderer.color
                        /\ UnitOf(renderer'.stream, renderer'.length - 1, vtx)
                              = renderer'.cache[last'.args.image] ]_vars

\* A drawImage has filled the last slot of a stream that has grown.
C15_Witness ==
    /\ last.op = "drawImage"
    /\ renderer.sbSize > INITIAL_SB_SIZE
    /\ renderer.length = renderer.sbSize
    /\ renderer.sbOffset = Len(renderer.stream)
    /\ UnitOf(renderer.stream, renderer.length - 1, 3) = renderer.cache[last.args.image]
    /\ ColorOf(renderer.stream, renderer.length - 1, 3) = renderer.color

\* C16: growing the stream with K pending quads leaves the first K * 36
\* floats, the pending length and the write offset as they were; a drawImage
\* that grows the stream keeps the K quads, in their positions, and adds its
\* own after them.
C16_GrowthPreservesPending ==
    [][ /\ LET grown == resizeSB([r |-> renderer, gl |-> gl]).r
               K == renderer.length
           IN /\ grown.sbSize = 2 * renderer.sbSize
              /\ Len(grown.stream) = 2 * Len(renderer.stream)
              /\ SubSeq(grown.stream, 1, K * QUAD_SIZE)
                    = SubSeq(renderer.stream, 1, K * QUAD_SIZE)
              /\ grown.length = K
              /\ grown.sbOffset = renderer.sbOffset
        /\ (last'.op = "drawImage" /\ renderer'.sbSize # renderer.sbSize)
            => /\ renderer.length = renderer.sbSize
               /\ SubSeq(renderer'.stream, 1, renderer.length * QUAD_SIZE)
                     = SubSeq(renderer.stream, 1, renderer.length * QUAD_SIZE)
               /\ renderer'.length = renderer.length + 1
               /\ renderer'.sbOffset = renderer.sbOffset + QUAD_SIZE ]_vars

\* A drawImage has grown a stream of two different pending quads and added
\* a third.
C16_Witness ==
    /\ last.op = "drawImage"
    /\ last.length = 2
    /\ renderer.length = 3
    /\ renderer.sbSize = 4
    /\ SubSeq(renderer.stream, 1, QUAD_SIZE) # SubSeq(renderer.stream, QUAD_SIZE + 1, 2 * QUAD_SIZE)
    /\ SubSeq(renderer.stream, 3 * QUAD_SIZE + 1, 4 * QUAD_SIZE) = Float32Array(QUAD_SIZE)

\* C17: over drawImage, flush and setProjection calls (and clear and colour
\* changes), from the construction or from a reset, the quads covered by the
\* draw calls issued so far plus the pending length number the drawImage
\* calls made with a visible colour.
C17_DrawnPlusPendingIsVisibleCalls ==
    app.counts => counted.drawn + renderer.length = counted.visible

\* MaxDraws visible drawImage calls, more than MAX_LENGTH, have been counted:
\* the stream has grown, automatic flushes have drawn some of the quads and
\* a setProjection has drawn the last of them.
C17_Witness ==
    /\ app.counts
    /\ last.op = "setProjection"
    /\ IssuedCalls(gl, "drawElements") # {}
    /\ counted.visible = MaxDraws
    /\ counted.drawn = MaxDraws
    /\ renderer.sbSize > INITIAL_SB_SIZE

RECURSIVE IsPowerOfTwo(_)
IsPowerOfTwo(n) == n = 1 \/ (n > 1 /\ n % 2 = 0 /\ IsPowerOfTwo(n \div 2))

\* C18: the capacity sbSize starts at its initial value (256 in the source),
\* is always a power of two of at least that value, changes only by exact
\* doubling, and the stream always has exactly sbSize * 36 floats.
C18_CapacityPowerOfTwo ==
    /\ renderer.sbSize = INITIAL_SB_SIZE
    /\ Len(renderer.stream) = INITIAL_SB_SIZE * 36
    /\ [][ /\ renderer'.sbSize \in {renderer.sbSize, 2 * renderer.sbSize}
           /\ IsPowerOfTwo(renderer'.sbSize)
           /\ renderer'.sbSize >= INITIAL_SB_SIZE
           /\ Len(renderer'.stream) = renderer'.sbSize * 36 ]_vars

\* The capacity has doubled twice.
C18_Witness ==
    /\ last.op = "drawImage"
    /\ renderer.sbSize = 4 * INITIAL_SB_SIZE
    /\ Len(renderer.stream) = 4 * INITIAL_SB_SIZE * 36
    /\ renderer.length > 2 * INITIAL_SB_SIZE

RECURSIVE LeastCapacity(_, _)
\* The first capacity of the doubling sequence initial, 2 * initial, ... that
\* is not below cap.
LeastCapacity(initial, cap) ==
    IF initial >= cap THEN initial ELSE LeastCapacity(2 * initial, cap)

\* C19: the capacity never exceeds the first capacity of the doubling
\* sequence that is not below MAX_LENGTH (with the source's 256 and 16000,
\* that is 16384): the automatic flush empties the batch before the capacity
\* test can double the stream again.
C19_CapacityBounded ==
    /\ LeastCapacity(256, 16000) = 16384
    /\ renderer.sbSize <= LeastCapacity(INITIAL_SB_SIZE, MAX_LENGTH)
    /\ renderer.sbSize < 2 * MAX_LENGTH

\* At the largest capacity, a drawImage has drawn a full batch and started
\* the next without growing the stream.
C19_Witness ==
    /\ last.op = "drawImage"
    /\ last.length = MAX_LENGTH
    /\ IssuedCalls(gl, "drawElements") # {}
    /\ renderer.length = 1
    /\ renderer.sbSize = LeastCapacity(INITIAL_SB_SIZE, MAX_LENGTH)

\* The renderer r with its two counters zeroed and nothing else changed.
Rewound(r) == [r EXCEPT !.length = 0, !.sbOffset = 0]

\* C20: a flush changes only the pending length and the write offset: the
\* capacity, the contents of the stream, the texture-unit cache and the
\* next-unit counter (and the texture bindings of the context) stay as they
\* were, for the explicit flush, for the flush of setProjection and for the
\* automatic flush of drawImage at the cap.
C20_FlushFrame ==
    [][ /\ LET flushed == flush([r |-> renderer, gl |-> gl])
           IN /\ flushed.r = Rewound(renderer)
              /\ flushed.gl.bound = gl.bound
              /\ flushed.gl.active = gl.active
              /\ flushed.gl.uMatrix = gl.uMatrix
        /\ last'.op = "flush"
            => /\ renderer' = Rewound(renderer)
               /\ Context(gl') = Context(gl)
        /\ last'.op = "setProjection"
            => /\ renderer' = [Rewound(renderer) EXCEPT !.uMatrix = renderer'.uMatrix]
               /\ gl'.bound = gl.bound
        /\ (last'.op = "drawImage" /\ Visible(renderer.color) /\ renderer.length >= MAX_LENGTH)
            => /\ renderer'.sbSize = renderer.sbSize
               /\ Len(renderer'.stream) = Len(renderer.stream)
               /\ SubSeq(renderer'.stream, QUAD_SIZE + 1, Len(renderer.stream))
                     = SubSeq(renderer.stream, QUAD_SIZE + 1, Len(renderer.stream))
               /\ \A image \in DOMAIN renderer.cache :
                     /\ image \in DOMAIN renderer'.cache
                     /\ renderer'.cache[image] = renderer.cache[image]
               /\ renderer'.nextUnit
                     = renderer.nextUnit + Cardinality(IssuedCalls(gl', "texImage2D")) ]_vars

\* A flush has drawn pending quads of two images from a stream that has
\* grown: the capacity, the stale quads and the cache are still there.
C20_Witness ==
    /\ last.op = "flush"
    /\ IssuedCalls(gl, "drawElements") # {}
    /\ renderer.length = 0
    /\ renderer.sbSize > INITIAL_SB_SIZE
    /\ Cardinality(DOMAIN renderer.cache) >= 2
    /\ renderer.nextUnit >= 2
    /\ \E i \in 1..Len(gl.calls) :
          /\ gl.calls[i].op = "bufferSubData"
          /\ Len(gl.calls[i].data) >= 2 * QUAD_SIZE
          /\ gl.calls[i].data = SubSeq(renderer.stream, 1, Len(gl.calls[i].data))

\* C21: for every image in the cache whose unit is below maxTextures, the
\* texture bound at that unit is the one uploaded from that image, also
\* after a reset of a renderer that has drawn images.
C21_CachedUnitHoldsImage ==
    \A image \in DOMAIN renderer.cache :
        renderer.cache[image] < maxTextures
            => gl.bound[renderer.cache[image]] = image

\* The stream as a flush at the cap and a growth at capacity leave it, from
\* the renderer r: the old floats, followed by zeros if it has grown.
AfterFlushAndGrowth(r) ==
    LET length == IF r.length >= MAX_LENGTH THEN 0 ELSE r.length
        grows == length >= r.sbSize
    IN [length |-> length,
        sbOffset |-> IF r.length >= MAX_LENGTH THEN 0 ELSE r.sbOffset,
        sbSize |-> IF grows THEN 2 * r.sbSize ELSE r.sbSize,
        stream |-> IF grows THEN r.stream \o Float32Array(Len(r.stream)) ELSE r.stream]

\* C22: in a drawImage of an image not yet cached, the texture upload comes
\* after the automatic flush and after the growth of the stream, and before
\* any float of the new quad is written: the draw call of the old batch
\* precedes every texture call, and when the upload throws, the batch has
\* been drawn and the stream has grown, but the stream holds nothing of the
\* new quad and the counters have not advanced.
C22_UploadAfterFlushAndGrowth ==
    [][ (last'.op = "drawImage" /\ Visible(renderer.color)
            /\ last'.args.image \notin DOMAIN renderer.cache)
            => LET before == AfterFlushAndGrowth(renderer)
                   uploadAt == FirstCall(gl', "texImage2D")
               IN /\ uploadAt > 0
                  /\ gl'.calls[uploadAt].image = last'.args.image
                  /\ renderer.length >= MAX_LENGTH
                        => /\ gl'.calls[1] =
                                [op |-> "bufferSubData", offset |-> 0,
                                 data |-> SubSeq(renderer.stream, 1, renderer.length * QUAD_SIZE)]
                           /\ gl'.calls[2] =
                                [op |-> "drawElements",
                                 count |-> renderer.length * INDICES_PER_QUAD, offset |-> 0]
                           /\ \A i \in 1..Len(gl'.calls) : gl'.calls[i].op \in TextureOps => i > 2
                  /\ renderer.length < MAX_LENGTH
                        => \A i \in 1..Len(gl'.calls) : gl'.calls[i].op \in TextureOps
                  /\ renderer'.sbSize = before.sbSize
                  /\ last'.threw = "SecurityError"
                        => /\ renderer'.stream = before.stream
                           /\ renderer'.length = before.length
                           /\ renderer'.sbOffset = before.sbOffset
                           /\ last'.args.image \notin DOMAIN renderer'.cache
                  /\ last'.threw = "none"
                        => /\ renderer'.length = before.length + 1
                           /\ SubSeq(renderer'.stream, 1, before.sbOffset)
                                 = SubSeq(before.stream, 1, before.sbOffset)
                           /\ \A vtx \in 0..3 :
                                 UnitOf(renderer'.stream, before.length, vtx)
                                    = renderer'.cache[last'.args.image] ]_vars

\* A drawImage at the cap has drawn the old batch and then failed to upload
\* its image: nothing is pending, and the first slot still holds the old quad.
C22_Witness ==
    /\ last.op = "drawImage"
    /\ last.threw = "SecurityError"
    /\ last.length = MAX_LENGTH
    /\ renderer.length = 0
    /\ Len(gl.calls) > 2
    /\ gl.calls[2].op = "drawElements"
    /\ FirstCall(gl, "texImage2D") > 2
    /\ gl.calls[1].data = SubSeq(renderer.stream, 1, MAX_LENGTH * QUAD_SIZE)

\* The triangulation pattern of a quad.
P == << 0, 1, 2, 2, 1, 3 >>

\* C23: the index table has MAX_LENGTH * 6 entries; the entry at position i
\* is P[i mod 6] + 4 * floor(i / 6) with P = (0,1,2,2,1,3), a vertex of quad
\* floor(i / 6); it is below 65536, and the conversion to unsigned 16-bit
\* does not alter it (for the batch cap of the model and for the source's
\* 16000).
C23_IndexTable ==
    /\ ib.length = ib.maxLength * 6
    /\ ib.i <= ib.length
    /\ ib.i > 0
          => LET i == ib.i - 1
             IN /\ ib.entry = P[(i % 6) + 1] + 4 * (i \div 6)
                /\ ib.entry >= 4 * (i \div 6)
                /\ ib.entry <= 4 * (i \div 6) + 3
                /\ ib.entry < 65536
                /\ ib.stored = ib.entry

\* The loop has stored the last of the 96000 entries of the source's table:
\* the last vertex of the last quad.
C23_Witness ==
    /\ ib.maxLength = 16000
    /\ ib.i = 96000
    /\ ib.stored = 63999

\* C24: the write offset is the pending length times the 36 floats of a
\* quad: drawImage advances the two together, flush and reset zero them
\* together.
C24_OffsetIsLengthTimesQuad ==
    /\ renderer.sbOffset = renderer.length * 36
    /\ renderer.sbOffset <= Len(renderer.stream)

\* The stream has grown to its largest capacity and a reset has followed
\* draws; drawImage calls have then filled two slots again.
C24_Witness ==
    /\ last.op = "drawImage"
    /\ last.length = 1
    /\ renderer.length = 2
    /\ renderer.sbOffset = 72
    /\ gl.bound[0] = "emptyTexture"
    /\ DOMAIN renderer.cache # {}
    /\ renderer.sbSize = LeastCapacity(INITIAL_SB_SIZE, MAX_LENGTH)

====
